---- MODULE Spec2Model ----
(***************************************************************************)
(* Ad Metadata Tracker (app.py): the deduplication engine                  *)
(* detect_duplicates, its helper normalize_text, and the Streamlit         *)
(* handlers that feed it ("Add ad", "Load example dataset",                *)
(* "Run deduplication & clean").  The audit log and the ingested_at       *)
(* time stamps, which only record wall-clock times for display, are left   *)
(* out.                                                                    *)
(*                                                                         *)
(* Text is modelled as a sequence of one-character strings.  A cell value  *)
(* is a record: [kind |-> "nan"] (missing), [kind |-> "str", s |-> chars]  *)
(* or [kind |-> "date", y, m, d] (a datetime.date).  A similarity score is *)
(* the exact fraction <<numerator, denominator>> of the float the code     *)
(* computes; thresholds are counted in hundredths.                         *)
(***************************************************************************)
EXTENDS Integers, Sequences, FiniteSets, TLC

VARIABLES
    RAPIDFUZZ,        \* app.py:29-33, whether rapidfuzz could be imported
    df,               \* argument of the running detect_duplicates call
    subset_keys,      \* argument: the key field list
    fuzzy_threshold,  \* argument, in hundredths (92 is 0.92)
    pc,               \* position of the call: "start", "loop", "combine", "done"
    keys,             \* df["_key"].tolist()
    exact_dup,        \* app.py:88
    fuzzy_dup,        \* app.py:91
    i, j,             \* loop indices of the pairwise phase (1-based here)
    result,           \* the returned Series, as a sequence of booleans
    raised,           \* the exception the call ended with, "none" if it returned
    ads_df,           \* st.session_state.ads_df
    cleaned_df,       \* st.session_state.cleaned_df ("unset" until the first run)
    slider,           \* the "Duplicate fuzzy threshold" slider, in percent
    last,             \* the handler the latest script run executed
    next_id           \* stands for the fresh uuid4 values of create_unique_id

callVars == <<df, subset_keys, fuzzy_threshold, pc, keys, exact_dup, fuzzy_dup,
              i, j, result, raised>>
appVars == <<ads_df, cleaned_df, slider, last, next_id>>
vars == <<RAPIDFUZZ, callVars, appVars>>

\* ------------------------------------------------------------------ bounds

MaxRows == 3
MaxAds == 4

\* ------------------------------------------------------------------ text

NaN == [kind |-> "nan"]
Str(s) == [kind |-> "str", s |-> s]
Date(y, m, d) == [kind |-> "date", y |-> y, m |-> m, d |-> d]

UpperCase == <<"A","B","C","D","E","F","G","H","I","J","K","L","M",
               "N","O","P","Q","R","S","T","U","V","W","X","Y","Z">>
LowerCase == <<"a","b","c","d","e","f","g","h","i","j","k","l","m",
               "n","o","p","q","r","s","t","u","v","w","x","y","z">>
Digits == <<"0","1","2","3","4","5","6","7","8","9">>
Whitespace == {" "}

\* a function on 1..n as the sequence of its values
AsSeq(f) == f \o <<>>

UpperSet == {UpperCase[n] : n \in 1..26}
LowerOf == [c \in UpperSet |-> LowerCase[CHOOSE n \in 1..26 : UpperCase[n] = c]]

\* str.lower() on one character
LowerChar(c) == IF c \in UpperSet THEN LowerOf[c] ELSE c

\* str.lower()
Lower(s) == AsSeq([n \in 1..Len(s) |-> LowerChar(s[n])])

\* str.strip(): drop leading and trailing whitespace
Strip(s) ==
    LET solid == {n \in 1..Len(s) : s[n] \notin Whitespace}
    IN IF solid = {} THEN <<>>
       ELSE LET lo == CHOOSE n \in solid : (1..(n - 1)) \cap solid = {}
                hi == CHOOSE n \in solid : ((n + 1)..Len(s)) \cap solid = {}
            IN SubSeq(s, lo, hi)

\* two decimal digits / four decimal digits, zero padded
Pad2(n) == <<Digits[((n \div 10) % 10) + 1], Digits[(n % 10) + 1]>>
Pad4(n) == <<Digits[((n \div 1000) % 10) + 1], Digits[((n \div 100) % 10) + 1]>> \o Pad2(n)

\* str(x) for the kinds of value a cell can hold (date: isoformat)
StrOf(x) ==
    IF x.kind = "date" THEN Pad4(x.y) \o <<"-">> \o Pad2(x.m) \o <<"-">> \o Pad2(x.d)
    ELSE x.s

\* normalize_text
normalize_text(x) ==
    IF x.kind = "nan" THEN <<>> ELSE Lower(Strip(StrOf(x)))

\* sep.join(parts)
RECURSIVE Join(_, _)
Join(sep, parts) ==
    IF Len(parts) = 0 THEN <<>>
    ELSE IF Len(parts) = 1 THEN parts[1]
    ELSE parts[1] \o sep \o Join(sep, Tail(parts))

\* ------------------------------------------------------------------ frames

\* A DataFrame: its column names and its rows, each row a function from the
\* columns to cell values.
Frame(cols, rows) == [cols |-> cols, rows |-> rows]

\* pd.DataFrame()
EmptyFrame == Frame({}, <<>>)

\* len(df)
NRows(frame) == Len(frame.rows)

\* df.empty: some axis has length 0
IsEmpty(frame) == NRows(frame) = 0 \/ frame.cols = {}

\* pd.Series([False], dtype=bool)
SeriesOfOneFalse == <<FALSE>>

\* pd.Series([], dtype=bool)
EmptySeries == <<>>

\* r[k] once detect_duplicates has added every missing key column as ""
Cell(frame, r, k) ==
    IF k \in frame.cols THEN frame.rows[r][k] ELSE Str(<<>>)

\* the "_key" of row r had the values been joined as they are, not normalized
BuildKeyRaw(frame, r, fields) ==
    Join(<<"|">>, [n \in 1..Len(fields) |->
                     LET x == Cell(frame, r, fields[n])
                     IN IF x.kind = "nan" THEN <<"n", "a", "n">> ELSE StrOf(x)])

\* the "_key" of row r: "|".join([normalize_text(r[k]) for k in subset_keys])
BuildKey(frame, r, fields) ==
    Join(<<"|">>, [n \in 1..Len(fields) |-> normalize_text(Cell(frame, r, fields[n]))])

\* df["_key"].tolist()
BuildKeys(frame, fields) == AsSeq([r \in 1..NRows(frame) |-> BuildKey(frame, r, fields)])

\* df.duplicated(subset=["_key"], keep="first"): all but the first occurrence
DuplicatedKeepFirst(ks) == AsSeq([n \in 1..Len(ks) |-> \E m \in 1..(n - 1) : ks[m] = ks[n]])

\* df.duplicated(subset=["_key"], keep=False): every member of a group of two or more
Duplicated(ks) == AsSeq([n \in 1..Len(ks) |-> \E m \in 1..Len(ks) : m # n /\ ks[m] = ks[n]])

\* pd.Series([False]*len(df), index=df.index)
AllFalse(n) == AsSeq([m \in 1..n |-> FALSE])

\* ------------------------------------------------------------------ the ads of a session

Num(v) == [kind |-> "num", v |-> v]
Bool(b) == [kind |-> "bool", b |-> b]
Id(n) == [kind |-> "id", n |-> n]

\* the default of subset_keys (app.py:71)
DefaultKeys == <<"advertiser", "brand", "channel", "format", "date">>

\* the slider of app.py:170: its range and default, in percent
SliderMin == 70
SliderMax == 100
SliderDefault == 90

\* the slider positions tried
SliderChoices == {SliderMin, SliderDefault, SliderMax}

\* the default of the "Source label" text input (app.py:171)
SourceLabel == Str(<<"r","e","p","l","i","t","_","d","e","m","o">>)

Ad(adv, brand, channel, format, date, spend) ==
    [advertiser |-> adv, brand |-> brand, channel |-> channel,
     format |-> format, date |-> date, spend |-> Num(spend)]

AdCols == {"advertiser", "brand", "channel", "format", "date", "spend"}

\* what the user types into the manual entry form: an ad, the same ad in
\* another spelling, and the same ad one day later
Forms ==
    { Ad(Str(<<"N","i","k","e">>), Str(<<"N","i","k","e">>), Str(<<"T","V">>),
         Str(<<"3","0","s">>), Date(2025, 8, 15), 0),
      Ad(Str(<<" ","n","i","k","e">>), Str(<<"N","i","k","e">>), Str(<<"T","V">>),
         Str(<<"3","0","s">>), Date(2025, 8, 15), 0),
      Ad(Str(<<"N","i","k","e">>), Str(<<"N","i","k","e">>), Str(<<"T","V">>),
         Str(<<"3","0","s">>), Date(2025, 8, 16), 100) }

\* load_example_data (app.py:49-54), the dates still text
ExampleData ==
    << Ad(Str(<<"P","e","p","s","i","C","o">>), Str(<<"P","e","p","s","i">>),
          Str(<<"T","V">>), Str(<<"3","0","s">>),
          Str(<<"2","0","2","5","-","0","8","-","1","5">>), 250000),
       Ad(Str(<<"P","e","p","s","i","C","o">>), Str(<<"P","e","p","s","i">>),
          Str(<<"D","i","g","i","t","a","l">>), Str(<<"1","5","s">>),
          Str(<<"2","0","2","5","-","0","8","-","2","0">>), 120000),
       Ad(Str(<<"C","o","c","a","-","C","o","l","a">>), Str(<<"C","o","c","a","-","C","o","l","a">>),
          Str(<<"T","V">>), Str(<<"3","0","s">>),
          Str(<<"2","0","2","5","-","0","8","-","0","9">>), 300000),
       Ad(Str(<<"N","i","k","e"," ","I","n","c",".">>), Str(<<"N","i","k","e">>),
          Str(<<"O","O","H">>), Str(<<"P","o","s","t","e","r">>),
          Str(<<"2","0","2","5","-","0","7","-","3","0">>), 50000) >>

\* row extended by the columns in extra, each taking its value from vals
WithCols(row, extra, vals) ==
    [c \in (DOMAIN row) \cup extra |-> IF c \in extra THEN vals[c] ELSE row[c]]

\* pd.concat([a, b], ignore_index=True): the union of the columns, NaN where
\* a frame lacks one
Concat(a, b) ==
    LET cols == a.cols \cup b.cols
        fill(row) == [c \in cols |-> IF c \in DOMAIN row THEN row[c] ELSE NaN]
    IN Frame(cols, [n \in 1..NRows(a) |-> fill(a.rows[n])]
                   \o [n \in 1..NRows(b) |-> fill(b.rows[n])])

\* add_audit_fields on rows that have no ad_id yet: ids from first on, and
\* the source label
add_audit_fields(rows, first) ==
    Frame(AdCols \cup {"ad_id", "source"},
          [n \in 1..Len(rows) |->
              WithCols(rows[n], {"ad_id", "source"},
                       [ad_id |-> Id(first + n - 1), source |-> SourceLabel])])

\* load_example_data: the rows with their ids (no source column)
load_example_data(first) ==
    Frame(AdCols \cup {"ad_id"},
          [n \in 1..Len(ExampleData) |->
              WithCols(ExampleData[n], {"ad_id"}, [ad_id |-> Id(first + n - 1)])])

DigitValue(c) == (CHOOSE n \in 1..10 : Digits[n] = c) - 1

\* the date of a cell after pd.to_datetime(...).dt.date: a date stays, text
\* of the form YYYY-MM-DD is read, a missing value stays missing
ToDate(x) ==
    IF x.kind = "str"
    THEN Date(1000 * DigitValue(x.s[1]) + 100 * DigitValue(x.s[2])
                + 10 * DigitValue(x.s[3]) + DigitValue(x.s[4]),
              10 * DigitValue(x.s[6]) + DigitValue(x.s[7]),
              10 * DigitValue(x.s[9]) + DigitValue(x.s[10]))
    ELSE x

\* parse_dates_safe(df)
parse_dates_safe(frame) ==
    IF "date" \in frame.cols
    THEN Frame(frame.cols,
               [n \in 1..NRows(frame) |-> [frame.rows[n] EXCEPT !["date"] = ToDate(@)]])
    ELSE frame

\* one cell under astype(str)
AsTypeStr(x) ==
    IF x.kind = "nan" THEN Str(<<"n", "a", "n">>)
    ELSE IF x.kind = "str" THEN x
    ELSE Str(StrOf(x))

TextCols == {"advertiser", "brand", "channel", "format"}

\* app.py:233-237: the four text columns as text, "" where the frame has none
NormalizeTextCols(frame) ==
    Frame(frame.cols \cup TextCols,
          [n \in 1..NRows(frame) |->
              [c \in frame.cols \cup TextCols |->
                  IF c \in TextCols
                  THEN (IF c \in frame.cols THEN AsTypeStr(frame.rows[n][c]) ELSE Str(<<>>))
                  ELSE frame.rows[n][c]]])

\* the "_key" of one ad as "Run deduplication & clean" builds it
KeyOfAd(ad) ==
    BuildKey(NormalizeTextCols(parse_dates_safe(Frame(AdCols, <<ad>>))), 1, DefaultKeys)

KnownKeys == {KeyOfAd(ad) : ad \in Forms \cup {ExampleData[n] : n \in 1..Len(ExampleData)}}

\* ------------------------------------------------------------------ similarity

Max(x, y) == IF x >= y THEN x ELSE y

\* One row of the longest-common-subsequence table from the row of the
\* previous character of a (entry n is for the first n - 1 characters of b):
\* either c is left out, or it is matched with its last occurrence in b.
LcsNextRow(prev, c, b) ==
    LET at == {k \in 1..Len(b) : b[k] = c}
        cell(n) ==
            LET before == {k \in at : k < n}
            IN IF before = {} THEN prev[n]
               ELSE Max(prev[n], prev[CHOOSE k \in before : \A k2 \in before : k2 <= k] + 1)
    IN AsSeq([n \in 1..(Len(b) + 1) |-> cell(n)])

RECURSIVE LcsRows(_, _, _, _)
LcsRows(a, b, n, prev) ==
    IF n > Len(a) THEN prev[Len(b) + 1]
    ELSE LET row == LcsNextRow(prev, a[n], b)
         IN IF Len(row) = 0 THEN 0 ELSE LcsRows(a, b, n + 1, row)

\* length of a longest common subsequence of a and b
Lcs(a, b) == LcsRows(a, b, 1, AsSeq([n \in 1..(Len(b) + 1) |-> 0]))

\* length of the common run of a and b that starts at a[p], b[q] and stays
\* inside a[..ahi], b[..bhi]
RECURSIVE RunLen(_, _, _, _, _, _)
RunLen(a, b, p, q, ahi, bhi) ==
    IF p > ahi \/ q > bhi THEN 0
    ELSE IF a[p] # b[q] THEN 0
    ELSE 1 + RunLen(a, b, p + 1, q + 1, ahi, bhi)

\* SequenceMatcher.find_longest_match(alo, ahi, blo, bhi) without junk: the
\* longest matching block <<p, q, size>>; of several, the one starting
\* earliest in a, and of those the one starting earliest in b
FindLongestMatch(a, b, alo, ahi, blo, bhi) ==
    LET blocks == {<<p, q, RunLen(a, b, p, q, ahi, bhi)>> : p \in alo..ahi, q \in blo..bhi}
        sizes == {x[3] : x \in blocks}
        size == CHOOSE k \in sizes : \A k2 \in sizes : k2 <= k
        starts == {x[1] : x \in {y \in blocks : y[3] = size}}
        p0 == CHOOSE p \in starts : \A p2 \in starts : p <= p2
        others == {x[2] : x \in {y \in blocks : y[3] = size /\ y[1] = p0}}
        q0 == CHOOSE q \in others : \A q2 \in others : q <= q2
    IN IF blocks = {} THEN <<alo, blo, 0>>
       ELSE IF size = 0 THEN <<alo, blo, 0>>
       ELSE <<p0, q0, size>>

\* SequenceMatcher.get_matching_blocks: total size of the blocks found by
\* taking the longest match and recursing to its left and to its right
RECURSIVE MatchingSize(_, _, _, _, _, _)
MatchingSize(a, b, alo, ahi, blo, bhi) ==
    LET m == FindLongestMatch(a, b, alo, ahi, blo, bhi)
    IN IF m[3] = 0 THEN 0
       ELSE m[3] + MatchingSize(a, b, alo, m[1] - 1, blo, m[2] - 1)
                 + MatchingSize(a, b, m[1] + m[3], ahi, m[2] + m[3], bhi)

\* The keys of the ads the session is fed, and for every pair of them the
\* matching size and the longest common subsequence, worked out once.
KnownScores ==
    {<<a, b, MatchingSize(a, b, 1, Len(a), 1, Len(b)), Lcs(a, b)>> :
        a \in KnownKeys, b \in KnownKeys}

Known(a, b) == a \in KnownKeys /\ b \in KnownKeys
ScoresOf(a, b) == CHOOSE t \in KnownScores : t[1] = a /\ t[2] = b

\* rapidfuzz fuzz.ratio(a, b) / 100.0: the normalized Indel similarity
\* 1 - (len(a) + len(b) - 2*lcs) / (len(a) + len(b)), and 1 for two empty strings
RapidfuzzRatio(a, b) ==
    IF Len(a) + Len(b) = 0 THEN <<1, 1>>
    ELSE <<2 * (IF Known(a, b) THEN ScoresOf(a, b)[4] ELSE Lcs(a, b)), Len(a) + Len(b)>>

\* difflib.SequenceMatcher(None, a, b).ratio(): 2*M/T, and 1.0 when T = 0
\* (strings shorter than 200 characters, so the autojunk heuristic is idle)
DifflibRatio(a, b) ==
    IF Len(a) + Len(b) = 0 THEN <<1, 1>>
    ELSE <<2 * (IF Known(a, b) THEN ScoresOf(a, b)[3]
                ELSE MatchingSize(a, b, 1, Len(a), 1, Len(b))),
           Len(a) + Len(b)>>

\* the comparison turned round
AtMost(score, threshold) == score[1] * 100 <= threshold * score[2]

\* score >= fuzzy_threshold, the threshold in hundredths
AtLeast(score, threshold) == score[1] * 100 >= threshold * score[2]

\* ------------------------------------------------------------------ the classifier

\* a score that divides the matches by the shorter length
PairScoreLoose(rf, a, b) ==
    LET short == IF Len(a) <= Len(b) THEN Len(a) ELSE Len(b)
    IN IF short = 0 THEN <<1, 1>>
       ELSE IF rf THEN <<Lcs(a, b), short>>
       ELSE <<MatchingSize(a, b, 1, Len(a), 1, Len(b)), short>>

\* the score of one pair, by the library the import at the top of app.py found
PairScore(rf, a, b) ==
    IF rf THEN RapidfuzzRatio(a, b) ELSE DifflibRatio(a, b)

\* the body of the inner loop had it stored the comparison in both flags
FuzzyMarkAssign(fuzzy, p, q, score, threshold) ==
    [fuzzy EXCEPT ![p] = AtLeast(score, threshold), ![q] = AtLeast(score, threshold)]

\* the body of the inner loop: if score >= fuzzy_threshold, set both flags
FuzzyMark(fuzzy, p, q, score, threshold) ==
    IF AtLeast(score, threshold) THEN [fuzzy EXCEPT ![p] = TRUE, ![q] = TRUE] ELSE fuzzy

\* the pair the nested loops visit after <<p, q>> among n keys, <<0, 0>> if none
NextPair(n, p, q) ==
    IF q < n THEN <<p, q + 1>>
    ELSE IF p + 2 <= n THEN <<p + 1, p + 2>>
    ELSE <<0, 0>>

\* exact_dup | fuzzy_dup
Combined(exact, fuzzy) == AsSeq([n \in 1..Len(exact) |-> exact[n] \/ fuzzy[n]])

\* the pairwise phase from pair <<p, q>> on, run to its end
RECURSIVE FuzzyLoop(_, _, _, _, _, _)
FuzzyLoop(rf, ks, threshold, p, q, fuzzy) ==
    IF p = 0 \/ Len(ks) < 2 THEN fuzzy
    ELSE LET nxt == NextPair(Len(ks), p, q)
         IN FuzzyLoop(rf, ks, threshold, nxt[1], nxt[2],
                      FuzzyMark(fuzzy, p, q, PairScore(rf, ks[p], ks[q]), threshold))

\* detect_duplicates(df, subset_keys, fuzzy_threshold), a whole call
detect_duplicates(rf, frame, fields, threshold) ==
    IF IsEmpty(frame) THEN EmptySeries
    ELSE LET ks == BuildKeys(frame, fields)
         IN Combined(Duplicated(ks),
                     FuzzyLoop(rf, ks, threshold, 1, 2, AllFalse(Len(ks))))

\* ------------------------------------------------------------------ inputs

Row(adv, brand) == [advertiser |-> adv, brand |-> brand]

\* The records a batch is drawn from: values that differ only in case and
\* surrounding blanks, a missing value, values holding the separator, and
\* two values whose similarity depends on the order of comparison.
Records ==
    { Row(Str(<<" ", "A">>), NaN),
      Row(Str(<<"a">>), NaN),
      Row(Str(<<"a", "|">>), NaN),
      Row(Str(<<"a">>), Str(<<"|">>)),
      Row(Str(<<"a", "a", "b", "a">>), NaN),
      Row(Str(<<"b", "a", "a", "a">>), NaN) }

RECURSIVE SeqsUpTo(_, _)
SeqsUpTo(S, n) ==
    IF n = 0 THEN {<<>>}
    ELSE LET shorter == SeqsUpTo(S, n - 1)
         IN shorter \cup {Append(q, x) : q \in {t \in shorter : Len(t) = n - 1}, x \in S}

\* the batches: DataFrame(), and frames of up to MaxRows records (none included)
Frames ==
    {EmptyFrame} \cup {Frame({"advertiser", "brand"}, rows) : rows \in SeqsUpTo(Records, MaxRows)}

\* key field lists: none, one field, two fields, and one with a field no record has
KeyLists ==
    { <<>>, <<"advertiser">>, <<"advertiser", "brand">>, <<"advertiser", "channel">> }

\* thresholds in hundredths: below 0, inside [0, 1], exactly 1, above 1
Thresholds == {-50, 75, 100, 150}

\* ------------------------------------------------------------------ one call of detect_duplicates

\* app.py:78-79
ReturnEmpty ==
    /\ pc = "start"
    /\ IsEmpty(df)
    /\ result' = EmptySeries
    /\ pc' = "done"
    /\ UNCHANGED <<RAPIDFUZZ, df, subset_keys, fuzzy_threshold, keys, exact_dup,
                   fuzzy_dup, i, j, raised, appVars>>

\* app.py:81-91: the keys, the exact phase, the cleared fuzzy flags
Prepare ==
    /\ pc = "start"
    /\ ~IsEmpty(df)
    /\ keys' = BuildKeys(df, subset_keys)
    /\ exact_dup' = Duplicated(keys')
    /\ fuzzy_dup' = AllFalse(NRows(df))
    /\ IF NRows(df) >= 2
       THEN i' = 1 /\ j' = 2 /\ pc' = "loop"
       ELSE i' = 0 /\ j' = 0 /\ pc' = "combine"
    /\ UNCHANGED <<RAPIDFUZZ, df, subset_keys, fuzzy_threshold, result, raised, appVars>>

\* one pass through the body of the inner loop, then on to the next pair
Compare ==
    /\ pc = "loop"
    /\ fuzzy_dup' = FuzzyMark(fuzzy_dup, i, j, PairScore(RAPIDFUZZ, keys[i], keys[j]),
                              fuzzy_threshold)
    /\ LET nxt == NextPair(Len(keys), i, j)
       IN /\ i' = nxt[1]
          /\ j' = nxt[2]
          /\ pc' = IF nxt[1] = 0 THEN "combine" ELSE "loop"
    /\ UNCHANGED <<RAPIDFUZZ, df, subset_keys, fuzzy_threshold, keys, exact_dup,
                   result, raised, appVars>>

\* app.py:97-103
CompareRapidfuzz == RAPIDFUZZ /\ Compare

\* app.py:106-112
CompareDifflib == ~RAPIDFUZZ /\ Compare

\* app.py:114-115
Combine ==
    /\ pc = "combine"
    /\ result' = Combined(exact_dup, fuzzy_dup)
    /\ pc' = "done"
    /\ UNCHANGED <<RAPIDFUZZ, df, subset_keys, fuzzy_threshold, keys, exact_dup,
                   fuzzy_dup, i, j, raised, appVars>>

\* ------------------------------------------------------------------ the Streamlit session

\* df["keep"] = ~df["is_duplicate"]
KeepFlag(flag) == ~flag

\* app.py:240-242: the frame with its is_duplicate and keep columns
MarkDuplicates(frame, mask) ==
    Frame(frame.cols \cup {"is_duplicate", "keep"},
          [n \in 1..NRows(frame) |->
              WithCols(frame.rows[n], {"is_duplicate", "keep"},
                       [is_duplicate |-> Bool(mask[n]), keep |-> Bool(KeepFlag(mask[n]))])])

\* the rows of frame whose numbers are in wanted, in their order
RowsAt(frame, wanted) ==
    AsSeq([k \in 1..Cardinality(wanted) |->
              frame.rows[CHOOSE n \in wanted : Cardinality({m \in wanted : m < n}) = k - 1]])

\* a cleaned view that keeps the non-duplicates and the first record of every
\* group of equal keys
NonDuplicatesOrFirst(frame) ==
    Frame(frame.cols,
          RowsAt(frame, {n \in 1..NRows(frame) :
                            \/ ~frame.rows[n]["is_duplicate"].b
                            \/ \A m \in 1..(n - 1) :
                                  BuildKey(frame, m, DefaultKeys) # BuildKey(frame, n, DefaultKeys)}))

\* df[~df["is_duplicate"]].copy(), the index reset
NonDuplicates(frame) ==
    LET kept(row) == ~row["is_duplicate"].b
    IN Frame(frame.cols, SelectSeq(frame.rows, kept))

idleCall ==
    /\ df = EmptyFrame
    /\ subset_keys = DefaultKeys
    /\ fuzzy_threshold = SliderDefault
    /\ pc = "idle"
    /\ keys = <<>>
    /\ exact_dup = <<>>
    /\ fuzzy_dup = <<>>
    /\ i = 0
    /\ j = 0
    /\ result = <<>>
    /\ raised = "none"

\* app.py:210-215: "Add ad" pressed with the form filled in
ManualEntry(form) ==
    /\ NRows(ads_df) + 1 <= MaxAds
    /\ ads_df' = Concat(ads_df, add_audit_fields(<<form>>, next_id))
    /\ next_id' = next_id + 1
    /\ last' = "manual"
    /\ UNCHANGED <<RAPIDFUZZ, callVars, cleaned_df, slider>>

\* app.py:218-221: "Load example dataset" pressed
LoadExample ==
    /\ NRows(ads_df) + Len(ExampleData) <= MaxAds
    /\ ads_df' = Concat(ads_df, load_example_data(next_id))
    /\ next_id' = next_id + Len(ExampleData)
    /\ last' = "example"
    /\ UNCHANGED <<RAPIDFUZZ, callVars, cleaned_df, slider>>

\* app.py:228-250: "Run deduplication & clean" pressed with the slider at percent
RunDedup(percent) ==
    LET frame == NormalizeTextCols(parse_dates_safe(ads_df))
        dup_mask == detect_duplicates(RAPIDFUZZ, frame, DefaultKeys, percent)
        marked == MarkDuplicates(frame, dup_mask)
    IN /\ cleaned_df' = NonDuplicates(marked)
       /\ ads_df' = marked
       /\ slider' = percent
       /\ last' = "dedup"
       /\ UNCHANGED <<RAPIDFUZZ, callVars, next_id>>

\* the session of a fresh page load (app.py:177-180)
AppFresh ==
    /\ ads_df = EmptyFrame
    /\ cleaned_df = "unset"
    /\ slider = SliderDefault
    /\ last = "load"
    /\ next_id = 1

\* a call of detect_duplicates about to start, on any batch, key field list
\* and threshold
Init ==
    /\ RAPIDFUZZ \in BOOLEAN
    /\ df \in Frames
    /\ subset_keys \in KeyLists
    /\ fuzzy_threshold \in Thresholds
    /\ pc = "start"
    /\ keys = <<>>
    /\ exact_dup = <<>>
    /\ fuzzy_dup = <<>>
    /\ i = 0
    /\ j = 0
    /\ result = <<>>
    /\ raised = "none"
    /\ AppFresh

Next == ReturnEmpty \/ Prepare \/ CompareRapidfuzz \/ CompareDifflib \/ Combine

Spec == Init /\ [][Next]_vars

\* ------------------------------------------------------------------ properties of a call

\* what the claims speak of, taken from the arguments of the call
KeyOf(n) == BuildKey(df, n, subset_keys)
NormSeq(n) == [k \in 1..Len(subset_keys) |-> normalize_text(Cell(df, n, subset_keys[k]))]
HasSeparator(n) ==
    \E k \in 1..Len(subset_keys) : \E c \in 1..Len(NormSeq(n)[k]) : NormSeq(n)[k][c] = "|"
RowIds == 1..NRows(df)
Returned == pc = "done"
\* the score the code takes for the pair {n, m}: the earlier record's key first
ScoreOfPair(n, m) ==
    IF n < m THEN PairScore(RAPIDFUZZ, KeyOf(n), KeyOf(m))
    ELSE PairScore(RAPIDFUZZ, KeyOf(m), KeyOf(n))
ExactTwin(n) == \E m \in RowIds : m # n /\ KeyOf(m) = KeyOf(n)
FuzzyTwin(n) == \E m \in RowIds : m # n /\ AtLeast(ScoreOfPair(n, m), fuzzy_threshold)
BadArguments == subset_keys = <<>> \/ fuzzy_threshold < 0 \/ fuzzy_threshold > 100

\* C1: the result has one boolean per record, in input order, and record n is
\* flagged exactly when another record m has the same key or a key whose
\* similarity score with the key of n reaches the threshold; a lone record
\* is never flagged.
C1_Claim ==
    Returned =>
        /\ Len(result) = NRows(df)
        /\ \A n \in RowIds :
              result[n] <=>
                  \/ ExactTwin(n)
                  \/ \E m \in RowIds :
                        /\ m # n
                        /\ AtLeast(PairScore(RAPIDFUZZ, KeyOf(n), KeyOf(m)), fuzzy_threshold)
        /\ (NRows(df) = 1 => ~result[1])

\* What the call does compute: the statement of C1 with the score of a pair
\* taken the way the loops take it, the earlier record's key first.  With
\* rapidfuzz, whose score is symmetric, this is C1 itself.
ClassifierAsCoded ==
    Returned =>
        /\ Len(result) = NRows(df)
        /\ \A n \in RowIds : result[n] <=> (ExactTwin(n) \/ FuzzyTwin(n))
        /\ (RAPIDFUZZ => C1_Claim)

\* C2: records that share a composite key are all flagged, the first
\* occurrence included, at every threshold.
C2_Theorem ==
    Returned =>
        \A n, m \in RowIds : (n < m /\ KeyOf(n) = KeyOf(m)) => (result[n] /\ result[m])

C2_Witness ==
    /\ Returned
    /\ fuzzy_threshold = 150
    /\ NRows(df) = 3
    /\ KeyOf(1) = KeyOf(3) /\ result[1] /\ result[3] /\ ~result[2]

\* C3: if the score of key n against key m reaches the threshold, both are
\* flagged, whichever of the two comes first in the batch.
C3_Claim ==
    Returned =>
        \A n, m \in RowIds :
            (n # m /\ AtLeast(PairScore(RAPIDFUZZ, KeyOf(n), KeyOf(m)), fuzzy_threshold))
                => (result[n] /\ result[m])

\* C4: with an empty key field list or a threshold outside [0, 1] a call on
\* a non-empty batch compares nothing and ends with an error and no result.
C4_Claim ==
    (BadArguments /\ ~IsEmpty(df)) =>
        /\ pc \in {"start", "done"}
        /\ (pc = "done" => (raised \in {"InvalidFieldSet", "InvalidThreshold"} /\ result = <<>>))

\* What the call does instead: it checks neither argument and always
\* returns one boolean per record.  With no key field every key is empty, so
\* every record of a batch of two or more is flagged; with a threshold above
\* 1 the result is the exact flags alone.
NoArgumentCheck ==
    Returned =>
        /\ raised = "none"
        /\ Len(result) = NRows(df)
        /\ (subset_keys = <<>> /\ NRows(df) >= 2 => \A n \in RowIds : result[n])
        /\ (fuzzy_threshold > 100 => \A n \in RowIds : result[n] <=> ExactTwin(n))

\* C5: every record flagged at a threshold is flagged at every lower one.
C5_Theorem ==
    Returned =>
        \A t \in Thresholds :
            t <= fuzzy_threshold =>
                LET low == detect_duplicates(RAPIDFUZZ, df, subset_keys, t)
                IN /\ Len(low) = Len(result)
                   /\ \A n \in 1..Len(result) : result[n] => low[n]

C5_Witness ==
    /\ Returned
    /\ fuzzy_threshold = 100
    /\ \E n \in RowIds :
          ~result[n] /\ detect_duplicates(RAPIDFUZZ, df, subset_keys, 75)[n]

\* C6 as claimed: two records have the same composite key exactly when their
\* sequences of normalized field values are the same.
C6_Claim ==
    (pc = "combine") =>
        \A n, m \in RowIds : (keys[n] = keys[m]) <=> (NormSeq(n) = NormSeq(m))

\* C6 as amended: records with the same normalized field values have the
\* same key; records with the same key have the same normalized field values
\* provided no normalized value of either holds the separator "|".
C6_Amended ==
    (pc = "combine") =>
        \A n, m \in RowIds :
            /\ (NormSeq(n) = NormSeq(m)) => (keys[n] = keys[m])
            /\ (keys[n] = keys[m] /\ ~HasSeparator(n) /\ ~HasSeparator(m))
                   => (NormSeq(n) = NormSeq(m))

C6_Witness ==
    /\ pc = "combine"
    /\ Len(subset_keys) = 2
    /\ \E n, m \in RowIds :
          /\ n # m
          /\ df.rows[n] # df.rows[m]
          /\ keys[n] = keys[m]
          /\ ~HasSeparator(n) /\ ~HasSeparator(m)

\* C7: at threshold 1.0 only identical keys reach the threshold, so the
\* result is the exact-duplicate flags.
C7_Theorem ==
    (Returned /\ fuzzy_threshold = 100) =>
        /\ \A n, m \in RowIds :
              (n # m /\ AtLeast(PairScore(RAPIDFUZZ, KeyOf(n), KeyOf(m)), 100))
                  => (KeyOf(n) = KeyOf(m))
        /\ result = Duplicated(BuildKeys(df, subset_keys))

C7_Witness ==
    /\ Returned
    /\ fuzzy_threshold = 100
    /\ NRows(df) = 3
    /\ result = <<TRUE, TRUE, FALSE>>
    /\ AtLeast(ScoreOfPair(2, 3), 75)

\* C8: an empty batch gives an empty result and no error.
C8_Theorem ==
    (Returned /\ NRows(df) = 0) => (result = <<>> /\ raised = "none")

C8_Witness ==
    /\ Returned
    /\ NRows(df) = 0
    /\ df.cols # {}
    /\ subset_keys # <<>>
    /\ result = <<>>

\* C9: during the pairwise phase a fuzzy flag only goes from false to true,
\* and a flag is set exactly when a pair already visited set it.
Visited(n, m) ==
    /\ n < m
    /\ \/ pc \in {"combine", "done"}
       \/ pc = "loop" /\ (n < i \/ (n = i /\ m < j))
FlagsOnlyRise ==
    \A n \in 1..Len(fuzzy_dup) : fuzzy_dup[n] => fuzzy_dup'[n]
FlagsAreVisitedMatches ==
    \A n \in 1..Len(fuzzy_dup) :
        fuzzy_dup[n] <=>
            \E m \in 1..Len(fuzzy_dup) :
                /\ m # n
                /\ Visited(IF n < m THEN n ELSE m, IF n < m THEN m ELSE n)
                /\ AtLeast(IF n < m THEN PairScore(RAPIDFUZZ, keys[n], keys[m])
                           ELSE PairScore(RAPIDFUZZ, keys[m], keys[n]), fuzzy_threshold)
C9_Theorem == [][FlagsOnlyRise]_vars /\ []FlagsAreVisitedMatches

C9_Witness ==
    /\ pc = "loop"
    /\ i = 2 /\ j = 3
    /\ fuzzy_dup = <<TRUE, TRUE, FALSE>>
    /\ ~AtLeast(PairScore(RAPIDFUZZ, keys[2], keys[3]), fuzzy_threshold)

\* ------------------------------------------------------------------ the session as a state machine

AppInit ==
    /\ RAPIDFUZZ \in BOOLEAN
    /\ idleCall
    /\ AppFresh

AppNext ==
    \/ \E form \in Forms : ManualEntry(form)
    \/ LoadExample
    \/ \E percent \in SliderChoices : RunDedup(percent)

AppSpec == AppInit /\ [][AppNext]_vars

\* ------------------------------------------------------------------ properties of the session

AdKey(n) == BuildKey(ads_df, n, DefaultKeys)
AdIds == 1..NRows(ads_df)
IsDup(n) == ads_df.rows[n]["is_duplicate"].b
InCleaned(n) ==
    \E k \in 1..NRows(cleaned_df) : cleaned_df.rows[k]["ad_id"] = ads_df.rows[n]["ad_id"]
Clustered(n, m) ==
    \/ AdKey(n) = AdKey(m)
    \/ AtLeast(IF n < m THEN PairScore(RAPIDFUZZ, AdKey(n), AdKey(m))
               ELSE PairScore(RAPIDFUZZ, AdKey(m), AdKey(n)), slider)

====
